---- MODULE Spec2Model ----
(***************************************************************************)
(* The HAKO loader (loader.c, thread-based revision): the mutex-guarded    *)
(* runtime state, the bytecode registry, the VM thread and the extension   *)
(* walk.  Caller threads issue the public operations; each operation is    *)
(* cut at the points where another thread may run.                         *)
(***************************************************************************)
EXTENDS Integers, Sequences, FiniteSets, TLC

\* ------------------------------------------------------------------ bounds
NumCallers == 2        \* caller threads issuing operations
MaxPreloaded == 3      \* hako_load_registry is called while fewer modules than this are registered
MaxTasks == 2          \* tasks the memory pool has room for
MaxWalks == 2          \* hako_init_extensions calls over one run

\* ------------------------------------------------------- program constants
MAX_BYTECODE_MODULES == 32
UINT8_MAX == 255
EINVAL == 22
ENOMEM == 12

Callers == 1..NumCallers

\* ----------------------------------------------------------------- strings
\* A C string is the sequence of its characters; the NULL pointer is a value
\* that is no string.
NULL == <<"NULL">>
Str_main == <<"m", "a", "i", "n">>
Str_Main == <<"M", "a", "i", "n">>
Str_utils == <<"u", "t", "i", "l", "s">>
Str_empty == <<>>

Digit(k) == <<"0", "1", "2", "3", "4", "5", "6", "7", "8", "9">>[k + 1]

\* The generated module names m01, m02, ...
ModName(k) == <<"m", Digit(k \div 10), Digit(k % 10)>>

\* (faulty variant: the comparison ignores the case of letters)
tolower(c) == IF c = "M" THEN "m" ELSE c

RECURSIVE strcasecmp(_, _)
strcasecmp(a, b) ==
    IF a = <<>> /\ b = <<>> THEN 0
    ELSE IF a = <<>> THEN -1
    ELSE IF b = <<>> THEN 1
    ELSE IF tolower(Head(a)) = tolower(Head(b))
         THEN strcasecmp(Tail(a), Tail(b))
    ELSE 1

RECURSIVE strcmp(_, _)
strcmp(a, b) ==
    IF a = <<>> /\ b = <<>> THEN 0
    ELSE IF a = <<>> THEN -1
    ELSE IF b = <<>> THEN 1
    ELSE IF Head(a) = Head(b) THEN strcmp(Tail(a), Tail(b))
    ELSE 1

\* ------------------------------------------------------------------ inputs
\* struct hako_bytecode_entry; a bytecode pointer is a natural, 0 is NULL.
Entry(n, b) == [name |-> n, bytecode |-> b]

\* The registry argument: a pointer (possibly NULL) to an array of entries.
NullRegistry == [null |-> TRUE, entries |-> <<>>]
Registry(es) == [null |-> FALSE, entries |-> es]

\* k distinctly named valid entries m01 -> 1, m02 -> 2, ...
Distinct(k) == [j \in 1..k |-> Entry(ModName(j), j)]

RegMainUtils == Registry(<<Entry(Str_main, 41), Entry(Str_utils, 42)>>)
RegNoMain == Registry(<<Entry(Str_utils, 43), Entry(Str_Main, 44)>>)
\* a NULL bytecode, a duplicate name, an empty name, a NULL-name terminator
RegMixed == Registry(<<Entry(Str_utils, 0), Entry(Str_main, 45),
                       Entry(Str_main, 46), Entry(Str_empty, 47),
                       Entry(NULL, 0), Entry(Str_Main, 48)>>)
RegBig == Registry(Distinct(MAX_BYTECODE_MODULES + 1))

\* (registry, count) pairs of hako_load_registry calls
LifecycleArgs ==
    { [registry |-> RegMainUtils, count |-> 2],
      [registry |-> RegNoMain, count |-> 2],
      [registry |-> NullRegistry, count |-> 0] }

RegistryArgs ==
    LifecycleArgs \cup
    { [registry |-> RegMixed, count |-> 6],
      [registry |-> RegMixed, count |-> 2],
      [registry |-> RegBig, count |-> 1],
      [registry |-> RegBig, count |-> MAX_BYTECODE_MODULES],
      [registry |-> RegBig, count |-> MAX_BYTECODE_MODULES + 1] }

\* (name, bytecode) pairs of hako_load_bytecode calls
BytecodeArgs ==
    { [name |-> Str_main, bytecode |-> 41],
      [name |-> NULL, bytecode |-> 49],
      [name |-> Str_utils, bytecode |-> 0] }

\* names hako_find_bytecode is called with
FindNames == {Str_main, Str_Main, Str_utils, Str_empty, NULL, ModName(1),
              ModName(MAX_BYTECODE_MODULES), ModName(MAX_BYTECODE_MODULES + 1)}

\* struct hako_extension_entry, as the linker lays the section out
Ext(n, p) == [name |-> n, priority |-> p]
Catalogs ==
    { <<Ext("a", 50), Ext("b", 10), Ext("c", 90), Ext("d", 10)>>,
      <<Ext("zephyr_gpio", 50)>> }

\* ------------------------------------------------------------------- state
VARIABLES
    g_vm_initialized,          \* static bool
    g_vm_thread_started,       \* static bool
    g_core_methods_registered, \* static bool
    g_vm,                      \* mrbc_vm *: the index of the task it points into, 0 is NULL
    g_bytecode_registry,       \* the array, slots 0 .. MAX_BYTECODE_MODULES - 1
    g_bytecode_count,          \* size_t
    g_vm_mutex,                \* 0 when free, else the owning thread
    vm_thread,                 \* where hako_vm_thread stands
    steps_ahead,               \* mrbc_run calls made less mrbc_tick calls made
    tasks,                     \* the interpreter's tasks, in creation order
    catalog,                   \* the .hako_extensions section
    pc,                        \* where each caller stands
    frame,                     \* each caller's arguments and locals
    entry,                     \* the shared state as each caller found it on taking the mutex
    k_thread_create_calls,     \* times k_thread_create was executed
    mrbc_init_calls,           \* times mrbc_init was executed
    ext_calls,                 \* times each extension's init was invoked
    ext_order,                 \* the extensions invoked, in order, by the last hako_init_extensions call
    ext_walks,                 \* hako_init_extensions calls started
    highest_slot_written,      \* highest index of g_bytecode_registry[] stored to, -1 when none
    loads_succeeded            \* hako_load_bytecode and main-loading hako_run calls that returned 0

shared == <<g_vm_initialized, g_vm_thread_started, g_core_methods_registered,
            g_vm, g_bytecode_registry, g_bytecode_count>>
history == <<k_thread_create_calls, mrbc_init_calls, ext_calls, ext_order,
             ext_walks>>
audit == <<highest_slot_written, loads_succeeded>>
vars == <<shared, g_vm_mutex, vm_thread, steps_ahead, tasks, catalog, pc, frame,
          entry, history, audit>>

EmptySlot == Entry(NULL, 0)

IdleFrame ==
    [op |-> "none", registry |-> NullRegistry, count |-> 0, name |-> NULL,
     bytecode |-> 0, i |-> 0, ret |-> 0, main_bytecode |-> 0,
     mrbc_init_ok |-> TRUE, prio |-> 0, invoked |-> {}, repeated |-> {}]

Snapshot ==
    [initialized |-> g_vm_initialized, started |-> g_vm_thread_started,
     vm |-> g_vm, registry |-> g_bytecode_registry, count |-> g_bytecode_count,
     tasks |-> Len(tasks), spawns |-> k_thread_create_calls,
     inits |-> mrbc_init_calls]

\* the value of entry[t] while t is in no locked region
NoSnapshot ==
    [initialized |-> FALSE, started |-> FALSE, vm |-> 0, registry |-> <<>>,
     count |-> 0, tasks |-> 0, spawns |-> 0, inits |-> 0]

Init ==
    /\ g_vm_initialized = FALSE
    /\ g_vm_thread_started = FALSE
    /\ g_core_methods_registered = FALSE
    /\ g_vm = 0
    /\ g_bytecode_registry = [s \in 0..(MAX_BYTECODE_MODULES - 1) |-> EmptySlot]
    /\ g_bytecode_count = 0
    /\ g_vm_mutex = 0
    /\ vm_thread = "unstarted"
    /\ steps_ahead = 0
    /\ tasks = <<>>
    /\ catalog \in Catalogs
    /\ pc = [t \in Callers |-> "idle"]
    /\ frame = [t \in Callers |-> IdleFrame]
    /\ entry = [t \in Callers |-> NoSnapshot]
    /\ k_thread_create_calls = 0
    /\ mrbc_init_calls = 0
    /\ ext_calls = [x \in 1..Len(catalog) |-> 0]
    /\ ext_order = <<>>
    /\ ext_walks = 0
    /\ highest_slot_written = -1
    /\ loads_succeeded = 0

\* ------------------------------------------------------------ error results
\* What the operations return for each kind of failure.
NotInitialized == -EINVAL      \* if (!g_vm_initialized) return -EINVAL;
InvalidArgument == -EINVAL     \* if (!registry), if (!bytecode): return -EINVAL;
RegistryFull == -ENOMEM        \* registry full: return -ENOMEM;
OutOfMemory == -ENOMEM         \* if (!tcb) return -ENOMEM;

\* ------------------------------------------------------------- scheduling
\* k_mutex_lock(&g_vm_mutex, K_FOREVER): returns once the mutex is free.
\* (faulty variant: the lock is taken without waiting for its owner)
MutexLockNoWait(t) == g_vm_mutex' = t
k_mutex_lock(t) == g_vm_mutex = 0 /\ g_vm_mutex' = t

\* A caller that calls an operation while another thread owns the mutex
\* blocks in k_mutex_lock(&g_vm_mutex, K_FOREVER).
LockWait(t) ==
    /\ pc[t] = "idle"
    /\ g_vm_mutex \notin {0, t}
    /\ pc' = [pc EXCEPT ![t] = "k_mutex_lock"]
    /\ UNCHANGED <<shared, g_vm_mutex, vm_thread, steps_ahead, tasks, catalog,
                   frame, entry, history, audit>>

\* Entering an operation: the call and its k_mutex_lock, at once when the
\* mutex is free or after the wait.
Enter(t, operation, f, next) ==
    /\ pc[t] \in {"idle", "k_mutex_lock"}
    /\ k_mutex_lock(t)
    /\ pc' = [pc EXCEPT ![t] = next]
    /\ frame' = [frame EXCEPT ![t] = [f EXCEPT !.op = operation]]
    /\ entry' = [entry EXCEPT ![t] = Snapshot]

\* A step of the operation at `here`, inside the locked region.
At(t, here) == pc[t] = here

Goto(t, next) == pc' = [pc EXCEPT ![t] = next]
SetRet(t, r) == frame' = [frame EXCEPT ![t].ret = r]

\* The call returning frame[t].ret is a load that succeeded: a
\* hako_load_bytecode that returns 0, or a hako_run that found "main", loaded
\* it and returns 0.
SuccessfulLoad(t) ==
    /\ frame[t].ret = 0
    /\ \/ frame[t].op = "hako_load_bytecode"
       \/ frame[t].op = "hako_run" /\ frame[t].main_bytecode # 0

\* hako_load_registry, once its loop is through, writes a log line that
\* prints g_bytecode_count after it has released the mutex.
LogsCount(t) == frame[t].op = "hako_load_registry" /\ frame[t].ret = 0

\* k_mutex_unlock(&g_vm_mutex) and the return of frame[t].ret to the caller.
\* (faulty variant: the function returns with the mutex still locked)
ReturnWithoutUnlock(t) ==
    /\ At(t, "unlock")
    /\ pc' = [pc EXCEPT ![t] = IF LogsCount(t) THEN "lr_log" ELSE "idle"]
    /\ frame' = [frame EXCEPT ![t] = IdleFrame]
    /\ entry' = [entry EXCEPT ![t] = NoSnapshot]
    /\ loads_succeeded' = loads_succeeded + (IF SuccessfulLoad(t) THEN 1 ELSE 0)
    /\ UNCHANGED <<shared, g_vm_mutex, vm_thread, steps_ahead, tasks, catalog,
                   history, highest_slot_written>>

Unlock(t) ==
    /\ At(t, "unlock")
    /\ g_vm_mutex' = 0
    /\ pc' = [pc EXCEPT ![t] = IF LogsCount(t) THEN "lr_log" ELSE "idle"]
    /\ frame' = [frame EXCEPT ![t] = IdleFrame]
    /\ entry' = [entry EXCEPT ![t] = NoSnapshot]
    /\ loads_succeeded' = loads_succeeded + (IF SuccessfulLoad(t) THEN 1 ELSE 0)
    /\ UNCHANGED <<shared, vm_thread, steps_ahead, tasks, catalog, history,
                   highest_slot_written>>

\* ---------------------------------------------------------------- hako_init
InitCall(t) ==
    /\ Enter(t, "hako_init", IdleFrame, "init_check")
    /\ UNCHANGED <<shared, vm_thread, steps_ahead, tasks, catalog, history, audit>>

\* if (g_vm_initialized) { unlock; return 0; }
\* (faulty variant: the test is left out)
InitSkipsCheck == FALSE
InitAlreadyInitialized == g_vm_initialized

InitCheck(t) ==
    /\ At(t, "init_check")
    /\ IF InitAlreadyInitialized
       THEN Goto(t, "unlock") /\ SetRet(t, 0)
       ELSE Goto(t, "init_vm") /\ UNCHANGED frame
    /\ UNCHANGED <<shared, g_vm_mutex, vm_thread, steps_ahead, tasks, catalog,
                   entry, history, audit>>

\* mrbc_init, hako_register_core_methods, the three flags; the call to
\* hako_init_extensions after the unlock is commented out in the source.
\* mrbc_init builds the interpreter inside g_memory_pool and returns void:
\* whether the pool sufficed (mrbc_init_ok) is not reported to hako_init, which
\* sets the flags and returns 0 in either case.
InitVm(t) ==
    /\ At(t, "init_vm")
    /\ mrbc_init_calls' = mrbc_init_calls + 1
    /\ g_core_methods_registered' = TRUE
    /\ g_vm_initialized' = TRUE
    /\ g_vm_thread_started' = FALSE
    /\ g_bytecode_count' = 0
    /\ Goto(t, "unlock")
    /\ \E ok \in BOOLEAN :
          frame' = [frame EXCEPT ![t].ret = 0, ![t].mrbc_init_ok = ok]
    /\ UNCHANGED <<g_vm, g_bytecode_registry, g_vm_mutex, vm_thread, steps_ahead,
                   tasks, catalog, entry, k_thread_create_calls, ext_calls,
                   ext_order, ext_walks, audit>>

\* ------------------------------------------------ hako_find_bytecode_locked
\* The scan from slot i of the first `count` slots of `reg`; 0 is NULL.
RECURSIVE ScanFrom(_, _, _, _)
ScanFrom(reg, count, i, name) ==
    IF i >= count THEN 0
    ELSE IF strcmp(reg[i].name, name) = 0 THEN reg[i].bytecode
    ELSE ScanFrom(reg, count, i + 1, name)

FindIn(reg, count, name) ==
    IF name = NULL THEN 0 ELSE ScanFrom(reg, count, 0, name)

\* (faulty variant: the scan stops one slot early)
FindSkippingLast(name) ==
    FindIn(g_bytecode_registry, g_bytecode_count - 1, name)

hako_find_bytecode_locked(name) ==
    FindIn(g_bytecode_registry, g_bytecode_count, name)

\* ------------------------------------------------ hako_load_bytecode_locked
\* mrbc_create_task returns a task, or NULL when the pool cannot hold one
\* more; `created` is its outcome.  `by` records the operation that asked.
CanCreate(created) == created => Len(tasks) < MaxTasks

\* (faulty variant: g_vm is set at every task, not only while it is NULL)
LoadLockedResetsVm(t, name, bytecode, created, by) ==
    /\ CanCreate(created)
    /\ IF created
       THEN /\ tasks' = Append(tasks, [name |-> name, bytecode |-> bytecode,
                                       by |-> by])
            /\ g_vm' = Len(tasks) + 1
       ELSE UNCHANGED <<tasks, g_vm>>

hako_load_bytecode_locked(t, name, bytecode, created, by) ==
    /\ CanCreate(created)
    /\ IF created
       THEN /\ tasks' = Append(tasks, [name |-> name, bytecode |-> bytecode,
                                       by |-> by])
            /\ g_vm' = IF g_vm = 0 THEN Len(tasks) + 1 ELSE g_vm
       ELSE UNCHANGED <<tasks, g_vm>>

\* (faulty variant: the failure of mrbc_create_task is not reported)
LoadResultIgnoresFailure(created) == 0
LoadResult(created) == IF created THEN 0 ELSE OutOfMemory

\* ------------------------------------------- hako_run / hako_start_vm_thread
RunCall(t) ==
    /\ Enter(t, "hako_run", IdleFrame, "run_check")
    /\ UNCHANGED <<shared, vm_thread, steps_ahead, tasks, catalog, history, audit>>

\* if (!g_vm_initialized) { unlock; return -EINVAL; }
\* (faulty variant: the test is left out)
RunSkipsInitCheck == FALSE
RunNotInitialized == ~g_vm_initialized

\* if (g_vm_thread_started) { unlock; return 0; }
\* (faulty variant: the test is left out)
RunSkipsStartedCheck == FALSE
RunAlreadyStarted == g_vm_thread_started

\* The two early returns, then the lookup of "main".
RunCheck(t) ==
    /\ At(t, "run_check")
    /\ IF RunNotInitialized
       THEN Goto(t, "unlock") /\ SetRet(t, NotInitialized)
       ELSE IF RunAlreadyStarted
       THEN Goto(t, "unlock") /\ SetRet(t, 0)
       ELSE LET main_bytecode == hako_find_bytecode_locked(Str_main) IN
            /\ frame' = [frame EXCEPT ![t].main_bytecode = main_bytecode]
            /\ Goto(t, IF main_bytecode # 0 THEN "run_load" ELSE "run_spawn")
    /\ UNCHANGED <<shared, g_vm_mutex, vm_thread, steps_ahead, tasks, catalog,
                   entry, history, audit>>

\* if (ret < 0) { unlock; return ret; }
\* (faulty variant: the test is left out)
RunIgnoresLoadFailure(ret) == FALSE
RunLoadFailed(ret) == ret < 0

\* ret = hako_load_bytecode_locked("main", main_bytecode); if (ret < 0) return ret;
RunLoadMain(t) ==
    /\ At(t, "run_load")
    /\ \E created \in BOOLEAN :
        /\ hako_load_bytecode_locked(t, Str_main, frame[t].main_bytecode,
                                     created, "hako_run")
        /\ SetRet(t, LoadResult(created))
        /\ Goto(t, IF RunLoadFailed(LoadResult(created))
                   THEN "unlock" ELSE "run_spawn")
    /\ UNCHANGED <<g_vm_initialized, g_vm_thread_started,
                   g_core_methods_registered, g_bytecode_registry,
                   g_bytecode_count, g_vm_mutex, vm_thread, steps_ahead, catalog,
                   entry, history, audit>>

\* k_thread_create(..., hako_vm_thread, ..., K_NO_WAIT); g_vm_thread_started = true;
\* (faulty variant: the flag is not set)
RunSpawnLeavesFlag(t) ==
    /\ At(t, "run_spawn")
    /\ k_thread_create_calls' = k_thread_create_calls + 1
    /\ vm_thread' = "hako_vm_thread"
    /\ Goto(t, "unlock")
    /\ UNCHANGED <<shared, g_vm_mutex, tasks, catalog, frame, entry, steps_ahead,
                   mrbc_init_calls, ext_calls, ext_order, ext_walks, audit>>

\* (faulty variant: the caller waits for the thread it created to return)
RunSpawnThenJoins(t) ==
    /\ At(t, "run_spawn")
    /\ k_thread_create_calls' = k_thread_create_calls + 1
    /\ vm_thread' = "hako_vm_thread"
    /\ g_vm_thread_started' = TRUE
    /\ Goto(t, "k_thread_join")
    /\ UNCHANGED <<g_vm_initialized, g_core_methods_registered, g_vm,
                   g_bytecode_registry, g_bytecode_count, g_vm_mutex, tasks,
                   catalog, frame, entry, steps_ahead, mrbc_init_calls, ext_calls,
                   ext_order, ext_walks, audit>>

RunSpawn(t) ==
    /\ At(t, "run_spawn")
    /\ k_thread_create_calls' = k_thread_create_calls + 1
    /\ vm_thread' = "hako_vm_thread"
    /\ g_vm_thread_started' = TRUE
    /\ Goto(t, "unlock")
    /\ UNCHANGED <<g_vm_initialized, g_core_methods_registered, g_vm,
                   g_bytecode_registry, g_bytecode_count, g_vm_mutex, tasks,
                   catalog, frame, entry, steps_ahead, mrbc_init_calls, ext_calls,
                   ext_order, ext_walks, audit>>

\* ------------------------------------------------------- hako_load_bytecode
LoadBytecodeCall(t, a) ==
    /\ Enter(t, "hako_load_bytecode",
             [IdleFrame EXCEPT !.name = a.name, !.bytecode = a.bytecode],
             "lb_check")
    /\ UNCHANGED <<shared, vm_thread, steps_ahead, tasks, catalog, history, audit>>

\* if (!bytecode) { unlock; return -EINVAL; }   (the name is not examined)
\* (faulty variant: the test is left out)
LoadBytecodeAcceptsNull(t) == FALSE
LoadBytecodeNullArgument(t) == frame[t].bytecode = 0

LoadBytecodeCheck(t) ==
    /\ At(t, "lb_check")
    /\ IF ~g_vm_initialized
       THEN Goto(t, "unlock") /\ SetRet(t, NotInitialized)
       ELSE IF LoadBytecodeNullArgument(t)
       THEN Goto(t, "unlock") /\ SetRet(t, InvalidArgument)
       ELSE Goto(t, "lb_load") /\ UNCHANGED frame
    /\ UNCHANGED <<shared, g_vm_mutex, vm_thread, steps_ahead, tasks, catalog,
                   entry, history, audit>>

\* (faulty variant: the module loaded is entered in the registry as well)
LoadBytecodeLoadRegisters(t) ==
    /\ At(t, "lb_load")
    /\ \E created \in BOOLEAN :
        /\ hako_load_bytecode_locked(t, frame[t].name, frame[t].bytecode,
                                     created, "hako_load_bytecode")
        /\ SetRet(t, LoadResult(created))
    /\ g_bytecode_registry' =
          [g_bytecode_registry EXCEPT ![g_bytecode_count] =
              Entry(frame[t].name, frame[t].bytecode)]
    /\ g_bytecode_count' = g_bytecode_count + 1
    /\ Goto(t, "unlock")
    /\ UNCHANGED <<g_vm_initialized, g_vm_thread_started,
                   g_core_methods_registered, g_vm_mutex, vm_thread,
                   steps_ahead, catalog, entry, history, audit>>

LoadBytecodeLoad(t) ==
    /\ At(t, "lb_load")
    /\ \E created \in BOOLEAN :
        /\ hako_load_bytecode_locked(t, frame[t].name, frame[t].bytecode,
                                     created, "hako_load_bytecode")
        /\ SetRet(t, LoadResult(created))
    /\ Goto(t, "unlock")
    /\ UNCHANGED <<g_vm_initialized, g_vm_thread_started,
                   g_core_methods_registered, g_bytecode_registry,
                   g_bytecode_count, g_vm_mutex, vm_thread, steps_ahead, catalog,
                   entry, history, audit>>

\* ------------------------------------------------------- hako_load_registry
LoadRegistryCall(t, a) ==
    /\ g_bytecode_count < MaxPreloaded
    /\ Enter(t, "hako_load_registry",
             [IdleFrame EXCEPT !.registry = a.registry, !.count = a.count],
             "lr_check")
    /\ UNCHANGED <<shared, vm_thread, steps_ahead, tasks, catalog, history, audit>>

\* if (!registry) { unlock; return -EINVAL; }
\* (faulty variant: the test is left out)
LoadRegistryAcceptsNull(t) == FALSE
LoadRegistryNullArgument(t) == frame[t].registry.null

LoadRegistryCheck(t) ==
    /\ At(t, "lr_check")
    /\ IF ~g_vm_initialized
       THEN Goto(t, "unlock") /\ SetRet(t, NotInitialized)
       ELSE IF LoadRegistryNullArgument(t)
       THEN Goto(t, "unlock") /\ SetRet(t, InvalidArgument)
       ELSE Goto(t, "lr_loop") /\ UNCHANGED frame
    /\ UNCHANGED <<shared, g_vm_mutex, vm_thread, steps_ahead, tasks, catalog,
                   entry, history, audit>>

\* registry[i] of the argument array (C indexes from 0)
RegistryAt(t) == frame[t].registry.entries[frame[t].i + 1]

\* i < count && registry[i].name != NULL
\* (faulty variant: the name is not tested)
LoopIgnoresTerminator(t) == frame[t].i < frame[t].count

LoopCondition(t) ==
    /\ frame[t].i < frame[t].count
    /\ RegistryAt(t).name # NULL

\* g_bytecode_count < MAX_BYTECODE_MODULES
\* (faulty variants: <= for <; the test is left out)
HasRoomOffByOne == g_bytecode_count <= MAX_BYTECODE_MODULES
HasRoomAlways == TRUE
HasRoom == g_bytecode_count < MAX_BYTECODE_MODULES

\* if (!registry[i].bytecode) continue;
\* (faulty variant: the test is left out)
SkipsNoEntry(t) == FALSE
SkipsEntry(t) == RegistryAt(t).bytecode = 0

\* (faulty variant: a batch refused for want of room is taken back whole)
LoadRegistryLoopAllOrNothing(t) ==
    /\ At(t, "lr_loop")
    /\ IF ~LoopCondition(t)
       THEN /\ Goto(t, "unlock") /\ SetRet(t, 0)
            /\ UNCHANGED <<g_bytecode_registry, g_bytecode_count,
                           highest_slot_written>>
       ELSE IF SkipsEntry(t)
       THEN /\ frame' = [frame EXCEPT ![t].i = @ + 1]
            /\ UNCHANGED <<pc, g_bytecode_registry, g_bytecode_count,
                           highest_slot_written>>
       ELSE IF HasRoom
       THEN /\ g_bytecode_registry' =
                  [g_bytecode_registry EXCEPT ![g_bytecode_count] =
                      Entry(RegistryAt(t).name, RegistryAt(t).bytecode)]
            /\ highest_slot_written' =
                  IF g_bytecode_count > highest_slot_written
                  THEN g_bytecode_count ELSE highest_slot_written
            /\ g_bytecode_count' = g_bytecode_count + 1
            /\ frame' = [frame EXCEPT ![t].i = @ + 1]
            /\ UNCHANGED pc
       ELSE /\ Goto(t, "unlock") /\ SetRet(t, RegistryFull)
            /\ g_bytecode_count' = entry[t].count
            /\ UNCHANGED <<g_bytecode_registry, highest_slot_written>>
    /\ UNCHANGED <<g_vm_initialized, g_vm_thread_started,
                   g_core_methods_registered, g_vm, g_vm_mutex, vm_thread, steps_ahead,
                   tasks, catalog, entry, history, loads_succeeded>>

\* One pass of the for loop, or its exit.  A store to
\* g_bytecode_registry[g_bytecode_count] past the last slot lands outside the
\* array: the array keeps its value and the index is on record.
LoadRegistryLoop(t) ==
    /\ At(t, "lr_loop")
    /\ IF ~LoopCondition(t)
       THEN /\ Goto(t, "unlock") /\ SetRet(t, 0)
            /\ UNCHANGED <<g_bytecode_registry, g_bytecode_count,
                           highest_slot_written>>
       ELSE IF SkipsEntry(t)
       THEN /\ frame' = [frame EXCEPT ![t].i = @ + 1]
            /\ UNCHANGED <<pc, g_bytecode_registry, g_bytecode_count,
                           highest_slot_written>>
       ELSE IF HasRoom
       THEN /\ g_bytecode_registry' =
                  [g_bytecode_registry EXCEPT ![g_bytecode_count] =
                      Entry(RegistryAt(t).name, RegistryAt(t).bytecode)]
            /\ highest_slot_written' =
                  IF g_bytecode_count > highest_slot_written
                  THEN g_bytecode_count ELSE highest_slot_written
            /\ g_bytecode_count' = g_bytecode_count + 1
            /\ frame' = [frame EXCEPT ![t].i = @ + 1]
            /\ UNCHANGED pc
       ELSE /\ Goto(t, "unlock") /\ SetRet(t, RegistryFull)
            /\ UNCHANGED <<g_bytecode_registry, g_bytecode_count,
                           highest_slot_written>>
    /\ UNCHANGED <<g_vm_initialized, g_vm_thread_started,
                   g_core_methods_registered, g_vm, g_vm_mutex, vm_thread, steps_ahead,
                   tasks, catalog, entry, history, loads_succeeded>>

\* LOG_INF("Successfully registered %zu modules", g_bytecode_count); return 0;
\* The read of g_bytecode_count for the message comes after k_mutex_unlock.
LoadRegistryLog(t) ==
    /\ At(t, "lr_log")
    /\ Goto(t, "idle")
    /\ UNCHANGED <<shared, g_vm_mutex, vm_thread, steps_ahead, tasks, catalog, frame,
                   entry, history, audit>>

\* ------------------------------------------ hako_find_bytecode, hako_get_vm
FindCall(t, name) ==
    /\ Enter(t, "hako_find_bytecode", [IdleFrame EXCEPT !.name = name],
             "find_scan")
    /\ UNCHANGED <<shared, vm_thread, steps_ahead, tasks, catalog, history, audit>>

FindScan(t) ==
    /\ At(t, "find_scan")
    /\ SetRet(t, hako_find_bytecode_locked(frame[t].name))
    /\ Goto(t, "unlock")
    /\ UNCHANGED <<shared, g_vm_mutex, vm_thread, steps_ahead, tasks, catalog,
                   entry, history, audit>>

GetVmCall(t) ==
    /\ Enter(t, "hako_get_vm", IdleFrame, "get_vm")
    /\ UNCHANGED <<shared, vm_thread, steps_ahead, tasks, catalog, history, audit>>

GetVm(t) ==
    /\ At(t, "get_vm")
    /\ SetRet(t, g_vm)
    /\ Goto(t, "unlock")
    /\ UNCHANGED <<shared, g_vm_mutex, vm_thread, steps_ahead, tasks, catalog,
                   entry, history, audit>>

\* ----------------------------------------------------- hako_init_extensions
\* The second loop: ext runs from __hako_extensions_start to
\* __hako_extensions_end and every ext->init() is called; the result is the
\* sequence of the extensions invoked, by their place in the section.
RECURSIVE WalkFrom(_, _)
WalkFrom(cat, ext) ==
    IF ext > Len(cat) THEN <<>> ELSE <<ext>> \o WalkFrom(cat, ext + 1)

InitOrder(cat) == WalkFrom(cat, 1)

Occurrences(order, x) == Cardinality({k \in 1..Len(order) : order[k] = x})

\* The whole call runs between irq_lock() and irq_unlock(): no other thread
\* runs during the walk.  It takes no mutex and reads no flag.
hako_init_extensions(t) ==
    /\ pc[t] = "idle"
    /\ ext_walks < MaxWalks
    /\ ext_walks' = ext_walks + 1
    /\ ext_order' = InitOrder(catalog)
    /\ ext_calls' = [x \in 1..Len(catalog) |->
                        ext_calls[x] + Occurrences(InitOrder(catalog), x)]
    /\ UNCHANGED <<shared, g_vm_mutex, vm_thread, steps_ahead, tasks, catalog, pc, frame,
                   entry, k_thread_create_calls, mrbc_init_calls, audit>>

\* ------------------------------- hako_init_extensions, in order of priority
\* The earlier loader walks the section once for each priority:
\*   for (uint8_t prio = 0; prio <= 255; prio++)
\*       for (ext = start; ext < end; ext++)
\*           if (ext->priority == prio && ext->init) ext->init();
\* It takes no lock.  frame[t].prio is the loop variable, frame[t].invoked the
\* extensions whose init this call has invoked and frame[t].repeated those
\* it has invoked more than once.
PriorityWalkCall(t) ==
    /\ pc[t] = "idle"
    /\ pc' = [pc EXCEPT ![t] = IF Len(catalog) = 0 THEN "idle" ELSE "prio_loop"]
    /\ frame' = [frame EXCEPT ![t] =
                    IF Len(catalog) = 0 THEN IdleFrame
                    ELSE [IdleFrame EXCEPT !.op = "hako_init_extensions"]]
    /\ UNCHANGED <<shared, g_vm_mutex, vm_thread, steps_ahead, tasks, catalog,
                   entry, history, audit>>

\* The extensions one pass of the inner loop invokes.
WithPriority(prio) == {x \in 1..Len(catalog) : catalog[x].priority = prio}

\* prio++ on a uint8_t
NextPriority(prio) == (prio + 1) % (UINT8_MAX + 1)

\* One turn of the outer loop: the test prio <= 255, the inner loop over the
\* section and prio++; when the test fails, the log line and the return.
PriorityWalkIteration(t) ==
    /\ At(t, "prio_loop")
    /\ IF frame[t].prio <= 255
       THEN /\ frame' = [frame EXCEPT
                   ![t].invoked = @ \cup WithPriority(frame[t].prio),
                   ![t].repeated = @ \cup (frame[t].invoked \cap
                                              WithPriority(frame[t].prio)),
                   ![t].prio = NextPriority(frame[t].prio)]
            /\ UNCHANGED pc
       ELSE /\ frame' = [frame EXCEPT ![t] = IdleFrame]
            /\ Goto(t, "idle")
    /\ UNCHANGED <<shared, g_vm_mutex, vm_thread, steps_ahead, tasks, catalog,
                   entry, history, audit>>

\* ------------------------------------------------------------ hako_vm_thread
\* The thread starts at the head of hako_vm_thread and enters
\* while (1) { mrbc_run(); mrbc_tick(); k_msleep(1); }
\* vm_thread names the statement it is about to execute.
VmStep(here, next, calls) ==
    /\ vm_thread = here
    /\ vm_thread' = next
    /\ steps_ahead' = steps_ahead + calls
    /\ UNCHANGED <<shared, g_vm_mutex, tasks, catalog, pc, frame,
                   entry, history, audit>>

\* (faulty variant: the loop body starts with the tick)
VmEntryAtTick == VmStep("hako_vm_thread", "mrbc_tick", 0)
VmEntry == VmStep("hako_vm_thread", "mrbc_run", 0)
\* (faulty variant: the supervisor takes the mutex for its scheduler step
\* and keeps it; -1 stands for the supervisor as the owner)
VmRunKeepsMutex ==
    /\ vm_thread = "mrbc_run"
    /\ g_vm_mutex = 0
    /\ g_vm_mutex' = -1
    /\ vm_thread' = "mrbc_tick"
    /\ steps_ahead' = steps_ahead + 1
    /\ UNCHANGED <<shared, tasks, catalog, pc, frame, entry, history, audit>>

VmRun == VmStep("mrbc_run", "mrbc_tick", 1)
VmTick == VmStep("mrbc_tick", "k_msleep", -1)
\* (faulty variant: the loop is left after the sleep and the thread returns)
VmLoopExits == VmStep("k_msleep", "returned", 0)
VmSleep == VmStep("k_msleep", "mrbc_run", 0)

VmLoop == VmEntry \/ VmRun \/ VmTick \/ VmSleep

\* The statements of the façade that read or write g_vm_initialized,
\* g_vm_thread_started, g_vm, g_bytecode_count or g_bytecode_registry: caller
\* t is about to execute one of them.
AccessesState(t) ==
    pc[t] \in {"init_check", "init_vm", "lr_check", "lr_loop", "lr_log",
               "lb_check", "lb_load", "run_check", "run_load", "run_spawn",
               "find_scan", "get_vm"}

\* Caller t stands at the call of hako_load_bytecode_locked, whose first
\* statement is mrbc_create_task: it has the mutex and the task is not yet in
\* the interpreter's queue.
CreatesTask(t) == pc[t] \in {"lb_load", "run_load"}

\* The supervisor stands at mrbc_run or mrbc_tick: it has reached the call
\* and the call has not returned.  It holds no lock there.
InSchedulerStep == vm_thread \in {"mrbc_run", "mrbc_tick"}

\* ------------------------------------------------------------ specifications
Next ==
    \/ \E t \in Callers :
        \/ InitCall(t)
        \/ InitCheck(t)
        \/ InitVm(t)
        \/ \E a \in LifecycleArgs : LoadRegistryCall(t, a)
        \/ LoadRegistryCheck(t)
        \/ LoadRegistryLoop(t)
        \/ LoadRegistryLog(t)
        \/ \E a \in BytecodeArgs : LoadBytecodeCall(t, a)
        \/ LoadBytecodeCheck(t)
        \/ LoadBytecodeLoad(t)
        \/ RunCall(t)
        \/ RunCheck(t)
        \/ RunLoadMain(t)
        \/ RunSpawn(t)
        \/ \E n \in {Str_main, Str_utils, NULL} : FindCall(t, n)
        \/ FindScan(t)
        \/ GetVmCall(t)
        \/ GetVm(t)
        \/ hako_init_extensions(t)
        \/ Unlock(t)
    \/ VmEntry
    \/ VmRun
    \/ VmTick
    \/ VmSleep

Spec == Init /\ [][Next]_vars

\* The operations on the runtime state, the registry and the tasks, and the
\* supervisor; the extension walk, which touches none of these, is left out.
NextLifecycle ==
    \/ \E t \in Callers :
        \/ InitCall(t)
        \/ InitCheck(t)
        \/ InitVm(t)
        \/ \E a \in LifecycleArgs : LoadRegistryCall(t, a)
        \/ LoadRegistryCheck(t)
        \/ LoadRegistryLoop(t)
        \/ LoadRegistryLog(t)
        \/ \E a \in BytecodeArgs : LoadBytecodeCall(t, a)
        \/ LoadBytecodeCheck(t)
        \/ LoadBytecodeLoad(t)
        \/ RunCall(t)
        \/ RunCheck(t)
        \/ RunLoadMain(t)
        \/ RunSpawn(t)
        \/ \E n \in {Str_main, Str_utils, NULL} : FindCall(t, n)
        \/ FindScan(t)
        \/ GetVmCall(t)
        \/ GetVm(t)
        \/ Unlock(t)
    \/ VmLoop

SpecLifecycle == Init /\ [][NextLifecycle]_vars

\* Starting the runtime: hako_init, hako_load_registry, hako_run and the
\* supervisor.  StartCall is a caller entering one of them, StartStep a
\* caller's next step inside one.
StartCall(t) ==
    \/ InitCall(t)
    \/ \E a \in LifecycleArgs : LoadRegistryCall(t, a)
    \/ RunCall(t)

StartStep(t) ==
    \/ InitCheck(t)
    \/ InitVm(t)
    \/ LoadRegistryCheck(t)
    \/ LoadRegistryLoop(t)
    \/ LoadRegistryLog(t)
    \/ RunCheck(t)
    \/ RunLoadMain(t)
    \/ RunSpawn(t)
    \/ Unlock(t)

NextStart == (\E t \in Callers : StartCall(t) \/ StartStep(t)) \/ VmLoop

\* A caller inside a call holds the mutex or is past it and waits for
\* nothing: the scheduler runs it.  No step of the supervisor is promised.
SpecCallersFair ==
    Init /\ [][NextStart]_vars /\ \A t \in Callers : WF_vars(StartStep(t))

\* The supervisor thread, once created, is always ready or sleeping for a
\* millisecond: the scheduler runs it.  No step of a caller is promised.
SpecSupervisorFair == Init /\ [][NextStart]_vars /\ WF_vars(VmLoop)

\* Callers contending for the mutex while the supervisor runs.  FacadeCall
\* is a caller taking the mutex on entering an operation, FacadeStep its next
\* step inside one, LockAcquire the end of a wait.
FacadeCall(t) ==
    \/ StartCall(t)
    \/ FindCall(t, Str_main)

FacadeStep(t) ==
    \/ StartStep(t)
    \/ FindScan(t)

LockAcquire(t) == pc[t] = "k_mutex_lock" /\ FacadeCall(t)

NextContended ==
    \/ \E t \in Callers : LockWait(t) \/ FacadeCall(t) \/ FacadeStep(t)
    \/ VmLoop

\* Every thread that can run is run: a caller inside a call, and the
\* supervisor.  k_mutex_unlock hands the mutex to a waiting thread, so a
\* waiter is not passed over for ever by callers arriving later.
SpecFair ==
    /\ Init
    /\ [][NextContended]_vars
    /\ \A t \in Callers : WF_vars(FacadeStep(t)) /\ SF_vars(LockAcquire(t))
    /\ WF_vars(VmLoop)

\* The earlier hako_init_extensions, called by the thread that boots the
\* runtime and scheduled for as long as it can run.
BootThread == CHOOSE t \in Callers : \A u \in Callers : t <= u

NextPriorityWalk ==
    \/ PriorityWalkCall(BootThread)
    \/ PriorityWalkIteration(BootThread)

SpecPriorityWalk ==
    /\ Init
    /\ [][NextPriorityWalk]_vars
    /\ WF_vars(PriorityWalkIteration(BootThread))

\* The registry operations alone, over the whole range of batches.
NextRegistry ==
    \E t \in Callers :
        \/ InitCall(t)
        \/ InitCheck(t)
        \/ InitVm(t)
        \/ \E a \in RegistryArgs : LoadRegistryCall(t, a)
        \/ LoadRegistryCheck(t)
        \/ LoadRegistryLoop(t)
        \/ LoadRegistryLog(t)
        \/ \E n \in FindNames : FindCall(t, n)
        \/ FindScan(t)
        \/ Unlock(t)

SpecRegistry == Init /\ [][NextRegistry]_vars

\* ------------------------------------------------------------------ claims
\* A caller about to return from `operation`: its result is in frame[t].ret,
\* every effect of the call is made, and it still holds the mutex.
Returning(t, operation) == pc[t] = "unlock" /\ frame[t].op = operation

\* The call changed nothing of the runtime state, the registry, the tasks,
\* and neither constructed the interpreter nor created a thread.
NoEffect(t) == Snapshot = entry[t]

TasksBy(operation) == {k \in 1..Len(tasks) : tasks[k].by = operation}

\* Some slot of the first `count` slots of `reg` is named `name`.
Named(reg, count, name) == \E s \in 0..(count - 1) : reg[s].name = name

\* C1: over any interleaving of hako_run calls by any callers, k_thread_create
\* is executed at most once.
C1_SupervisorCreatedAtMostOnce == k_thread_create_calls <= 1

\* a hako_run call that found the supervisor already started by another call
C1_Witness ==
    \E t \in Callers :
        /\ Returning(t, "hako_run")
        /\ entry[t].started
        /\ k_thread_create_calls = 1

\* C2: hako_run on an uninitialized runtime returns -EINVAL (NotInitialized),
\* creates no thread and no task and leaves the flags, g_vm and the registry
\* as they were.
C2_RunBeforeInit ==
    \A t \in Callers :
        Returning(t, "hako_run") /\ ~entry[t].initialized =>
            /\ frame[t].ret = -EINVAL
            /\ NoEffect(t)
            /\ vm_thread = "unstarted"

C2_Witness ==
    \E t \in Callers : Returning(t, "hako_run") /\ ~entry[t].initialized

\* C3: hako_run on an initialized runtime whose supervisor is not started and
\* whose registry has no entry named "main" returns 0, creates the thread,
\* sets g_vm_thread_started and creates no task.
C3_RunWithoutMain ==
    \A t \in Callers :
        /\ Returning(t, "hako_run")
        /\ entry[t].initialized
        /\ ~entry[t].started
        /\ ~Named(entry[t].registry, entry[t].count, Str_main)
        => /\ frame[t].ret = 0
           /\ k_thread_create_calls = entry[t].spawns + 1
           /\ vm_thread # "unstarted"
           /\ g_vm_thread_started
           /\ Len(tasks) = entry[t].tasks
           /\ g_vm = entry[t].vm

\* the registry holds entries ("utils", "Main"), none of them "main"
C3_Witness ==
    \E t \in Callers :
        /\ Returning(t, "hako_run")
        /\ entry[t].initialized
        /\ ~entry[t].started
        /\ entry[t].count > 0
        /\ ~Named(entry[t].registry, entry[t].count, Str_main)

\* C4: hako_run with the supervisor already started returns 0 and has no
\* effect; so hako_run creates at most one task for "main" over a whole run.
C4_RunWhenStarted ==
    /\ \A t \in Callers :
          Returning(t, "hako_run") /\ entry[t].started =>
              frame[t].ret = 0 /\ NoEffect(t)
    /\ Cardinality(TasksBy("hako_run")) <= 1

\* a second hako_run after the one that loaded "main"
C4_Witness ==
    \E t \in Callers :
        /\ Returning(t, "hako_run")
        /\ entry[t].started
        /\ TasksBy("hako_run") # {}

\* C5: hako_init on an initialized (or running) runtime returns 0 and changes
\* nothing: no second mrbc_init, no reset of the count, the registry, the
\* started flag or g_vm.
C5_InitIdempotent ==
    \A t \in Callers :
        Returning(t, "hako_init") /\ entry[t].initialized =>
            frame[t].ret = 0 /\ NoEffect(t)

\* a second hako_init with modules registered and the supervisor running
C5_Witness ==
    \E t \in Callers :
        /\ Returning(t, "hako_init")
        /\ entry[t].initialized
        /\ entry[t].started
        /\ entry[t].count > 0
        /\ entry[t].vm # 0

\* C6: whenever a hako_init call returns success, every extension of the
\* catalog has been initialized exactly once.
C6_InitRunsExtensionsOnce ==
    \A t \in Callers :
        Returning(t, "hako_init") /\ frame[t].ret = 0 =>
            \A x \in 1..Len(catalog) : ext_calls[x] = 1

\* `order` lists every extension of `cat` once, by ascending priority, equal
\* priorities in the order of the section.
PriorityOrdered(order, cat) ==
    /\ Len(order) = Len(cat)
    /\ \A x \in 1..Len(cat) : Occurrences(order, x) = 1
    /\ \A j, k \in 1..Len(order) :
          j < k =>
              \/ cat[order[j]].priority < cat[order[k]].priority
              \/ /\ cat[order[j]].priority = cat[order[k]].priority
                 /\ order[j] < order[k]

\* C7: a hako_init_extensions call invokes the extensions by ascending
\* priority, ties in the order of the section.
C7_ExtensionsInPriorityOrder ==
    ext_walks > 0 => PriorityOrdered(ext_order, catalog)

\* C8: no extension is initialized once a task exists or the supervisor
\* thread has been created.
C8_ExtensionsBeforeExecution ==
    [][ext_calls' # ext_calls => tasks = <<>> /\ k_thread_create_calls = 0]_vars

\* The first `count` entries of the batch are valid and pairwise distinctly
\* named.
ValidBatch(f) ==
    /\ ~f.registry.null
    /\ f.count <= Len(f.registry.entries)
    /\ \A k \in 1..f.count :
          /\ f.registry.entries[k].name # NULL
          /\ f.registry.entries[k].bytecode # 0
    /\ \A j, k \in 1..f.count :
          j # k => f.registry.entries[j].name # f.registry.entries[k].name

BatchNames(f) == {f.registry.entries[k].name : k \in 1..f.count}

\* C9: after a valid batch of at most MAX_BYTECODE_MODULES distinctly named
\* entries went into the empty registry, every name of the batch is found
\* with its own bytecode and no other name is found.
C9_RegistryRoundTrip ==
    \A t \in Callers :
        /\ Returning(t, "hako_load_registry")
        /\ entry[t].initialized
        /\ entry[t].count = 0
        /\ frame[t].count <= MAX_BYTECODE_MODULES
        /\ ValidBatch(frame[t])
        => /\ \A k \in 1..frame[t].count :
                 hako_find_bytecode_locked(frame[t].registry.entries[k].name)
                     = frame[t].registry.entries[k].bytecode
           /\ \A n \in FindNames \ BatchNames(frame[t]) :
                 hako_find_bytecode_locked(n) = 0

\* a batch that fills the registry exactly
C9_Witness ==
    \E t \in Callers :
        /\ Returning(t, "hako_load_registry")
        /\ entry[t].initialized
        /\ entry[t].count = 0
        /\ frame[t].count = MAX_BYTECODE_MODULES
        /\ ValidBatch(frame[t])

\* C10: a valid batch of MAX_BYTECODE_MODULES + 1 distinctly named entries
\* into the empty registry fails with -ENOMEM (RegistryFull); its first
\* MAX_BYTECODE_MODULES entries are found afterwards, the last one is not.
C10_CapacityBoundary ==
    \A t \in Callers :
        /\ Returning(t, "hako_load_registry")
        /\ entry[t].initialized
        /\ entry[t].count = 0
        /\ frame[t].count = MAX_BYTECODE_MODULES + 1
        /\ ValidBatch(frame[t])
        => /\ frame[t].ret = -ENOMEM
           /\ g_bytecode_count = MAX_BYTECODE_MODULES
           /\ \A k \in 1..MAX_BYTECODE_MODULES :
                 hako_find_bytecode_locked(frame[t].registry.entries[k].name)
                     = frame[t].registry.entries[k].bytecode
           /\ hako_find_bytecode_locked(
                  frame[t].registry.entries[MAX_BYTECODE_MODULES + 1].name) = 0

C10_Witness ==
    \E t \in Callers :
        /\ Returning(t, "hako_load_registry")
        /\ entry[t].initialized
        /\ entry[t].count = 0
        /\ frame[t].count = MAX_BYTECODE_MODULES + 1
        /\ ValidBatch(frame[t])
        /\ frame[t].ret = -ENOMEM

\* The entries of a hako_load_registry call that its loop reaches: those
\* before `count` and before the first entry whose name is NULL.
Reached(f) ==
    LET es == f.registry.entries
        stops == {k \in 1..f.count : es[k].name = NULL}
        first == CHOOSE k \in stops : \A j \in stops : k <= j
    IN  SubSeq(es, 1, IF stops = {} THEN f.count ELSE first - 1)

HasBytecode(e) == e.bytecode # 0

\* The reached entries that carry bytecode, in the order of the batch.
Accepted(f) == SelectSeq(Reached(f), HasBytecode)

\* The slots the registry gained since caller t took the mutex, in order.
Stored(t) ==
    [k \in 1..(g_bytecode_count - entry[t].count) |->
        g_bytecode_registry[entry[t].count + k - 1]]

\* The live slots of `reg` whose name is exactly `name`.
Matches(reg, count, name) == {s \in 0..(count - 1) : reg[s].name = name}

Lowest(S) == CHOOSE s \in S : \A r \in S : s <= r

\* C11: in every reachable state g_bytecode_count lies in 0 ..
\* MAX_BYTECODE_MODULES, and no slot of index MAX_BYTECODE_MODULES or more
\* was ever stored to.
C11_CountWithinCapacity ==
    /\ g_bytecode_count >= 0
    /\ g_bytecode_count <= MAX_BYTECODE_MODULES
    /\ highest_slot_written < MAX_BYTECODE_MODULES
    /\ highest_slot_written = g_bytecode_count - 1

\* a batch was refused at the full table, whose last slot is written
C11_Witness ==
    /\ g_bytecode_count = MAX_BYTECODE_MODULES
    /\ highest_slot_written = MAX_BYTECODE_MODULES - 1
    /\ \E t \in Callers :
          Returning(t, "hako_load_registry") /\ frame[t].ret = -ENOMEM

\* C12: hako_find_bytecode of a non-NULL name returns the bytecode of the
\* lowest live slot whose name equals it character for character, and NULL
\* when there is none; a batch that succeeds stores every accepted entry, so a
\* name registered twice occupies two slots.
C12_FindFirstExactMatch ==
    \A t \in Callers :
        /\ Returning(t, "hako_find_bytecode") /\ frame[t].name # NULL =>
              LET found == Matches(g_bytecode_registry, g_bytecode_count,
                                   frame[t].name)
              IN  frame[t].ret =
                      IF found = {} THEN 0
                      ELSE g_bytecode_registry[Lowest(found)].bytecode
        /\ /\ Returning(t, "hako_load_registry")
           /\ entry[t].initialized
           /\ ~frame[t].registry.null
           /\ frame[t].ret = 0
           => \A n \in FindNames \ {NULL} :
                 Cardinality(Matches(g_bytecode_registry, g_bytecode_count, n))
                     = Cardinality(Matches(entry[t].registry, entry[t].count, n))
                       + Cardinality({k \in 1..Len(Accepted(frame[t])) :
                                          Accepted(frame[t])[k].name = n})

\* a lookup of a name held by two slots with different bytecode
C12_Witness ==
    \E t \in Callers :
        /\ Returning(t, "hako_find_bytecode")
        /\ frame[t].ret # 0
        /\ \E s \in Matches(g_bytecode_registry, g_bytecode_count,
                            frame[t].name) :
              g_bytecode_registry[s].bytecode # frame[t].ret

\* C13: hako_find_bytecode of a NULL name or of the empty string returns NULL
\* in every state of the registry.
C13_FindRejectsNullAndEmpty ==
    \A t \in Callers :
        /\ Returning(t, "hako_find_bytecode")
        /\ frame[t].name \in {NULL, Str_empty}
        => frame[t].ret = 0

\* C14: a hako_load_registry call on the initialized runtime with a non-NULL
\* array fails only for want of room; when it returns 0 the registry gained
\* exactly the reached entries that carry bytecode, in their order, and the
\* entries with NULL bytecode are passed over.
C14_NullBytecodeSkipped ==
    \A t \in Callers :
        /\ Returning(t, "hako_load_registry")
        /\ entry[t].initialized
        /\ ~frame[t].registry.null
        => /\ frame[t].ret \in {0, -ENOMEM}
           /\ frame[t].ret = -ENOMEM =>
                 entry[t].count + Len(Accepted(frame[t])) > MAX_BYTECODE_MODULES
           /\ frame[t].ret = 0 =>
                 /\ g_bytecode_count =
                        entry[t].count + Len(Accepted(frame[t]))
                 /\ Stored(t) = Accepted(frame[t])

\* a batch with a NULL-bytecode entry ahead of entries that were registered
C14_Witness ==
    \E t \in Callers :
        /\ Returning(t, "hako_load_registry")
        /\ entry[t].initialized
        /\ ~frame[t].registry.null
        /\ frame[t].ret = 0
        /\ ~HasBytecode(Reached(frame[t])[1])
        /\ g_bytecode_count > entry[t].count

\* C15: when hako_load_registry returns -ENOMEM (RegistryFull) the table is
\* full, the slots that were live before the call are as they were, and the
\* call added exactly the accepted entries that preceded the failing one.
C15_RegistryFullKeepsPrefix ==
    \A t \in Callers :
        Returning(t, "hako_load_registry") /\ frame[t].ret = -ENOMEM =>
            /\ g_bytecode_count = MAX_BYTECODE_MODULES
            /\ \A s \in 0..(entry[t].count - 1) :
                  g_bytecode_registry[s] = entry[t].registry[s]
            /\ Len(Accepted(frame[t])) > MAX_BYTECODE_MODULES - entry[t].count
            /\ Stored(t) = SubSeq(Accepted(frame[t]), 1,
                                  MAX_BYTECODE_MODULES - entry[t].count)

\* a batch refused part-way into a registry that earlier calls had begun
C15_Witness ==
    \E t \in Callers :
        /\ Returning(t, "hako_load_registry")
        /\ frame[t].ret = -ENOMEM
        /\ entry[t].count > 0
        /\ g_bytecode_count > entry[t].count

\* C16: hako_load_registry returns -EINVAL and changes nothing when the
\* runtime is not initialized, whatever its arguments, and when the runtime is
\* initialized and the array is NULL.
C16_LoadRegistryRejects ==
    \A t \in Callers :
        /\ Returning(t, "hako_load_registry")
        /\ ~entry[t].initialized \/ frame[t].registry.null
        => frame[t].ret = -EINVAL /\ NoEffect(t)

\* a NULL array refused by the initialized runtime whose registry has entries
C16_Witness ==
    \E t \in Callers :
        /\ Returning(t, "hako_load_registry")
        /\ entry[t].initialized
        /\ frame[t].registry.null
        /\ entry[t].count > 0
        /\ frame[t].ret = -EINVAL

\* C17: hako_load_bytecode returns -EINVAL and changes nothing when the
\* runtime is not initialized and when the bytecode is NULL.  With the runtime
\* initialized and bytecode given, a NULL name is no ground for refusal: the
\* call returns 0 having created the one task, unnamed, or mrbc_create_task
\* failed and it returns -ENOMEM having changed nothing.
C17_LoadBytecodeRejects ==
    \A t \in Callers :
        Returning(t, "hako_load_bytecode") =>
            /\ ~entry[t].initialized \/ frame[t].bytecode = 0
               => frame[t].ret = -EINVAL /\ NoEffect(t)
            /\ entry[t].initialized /\ frame[t].bytecode # 0
                   /\ frame[t].name = NULL
               => \/ /\ frame[t].ret = 0
                     /\ Len(tasks) = entry[t].tasks + 1
                     /\ tasks[Len(tasks)] =
                            [name |-> NULL, bytecode |-> frame[t].bytecode,
                             by |-> "hako_load_bytecode"]
                  \/ frame[t].ret = -ENOMEM /\ NoEffect(t)

\* NULL bytecode refused after a load with a NULL name had made its task
C17_Witness ==
    \E t \in Callers :
        /\ Returning(t, "hako_load_bytecode")
        /\ entry[t].initialized
        /\ frame[t].bytecode = 0
        /\ frame[t].ret = -EINVAL
        /\ \E k \in TasksBy("hako_load_bytecode") : tasks[k].name = NULL

\* C18: the tasks are as many as the loads that returned success, counting
\* the one a call in progress has made and not yet reported; a call about to
\* return has made one task if it is a successful load and none otherwise,
\* and a load refused at mrbc_create_task returns -ENOMEM.
C18_TasksEqualSuccessfulLoads ==
    /\ Len(tasks) =
           loads_succeeded
           + Cardinality({t \in Callers :
                              g_vm_mutex = t /\ Len(tasks) > entry[t].tasks})
    /\ \A t \in Callers :
          pc[t] = "unlock" =>
              /\ Len(tasks) =
                     entry[t].tasks + (IF SuccessfulLoad(t) THEN 1 ELSE 0)
              /\ /\ frame[t].op = "hako_load_bytecode"
                 /\ entry[t].initialized
                 /\ frame[t].bytecode # 0
                 /\ frame[t].ret # 0
                 => frame[t].ret = -ENOMEM
              /\ /\ frame[t].op = "hako_run"
                 /\ entry[t].initialized
                 /\ ~entry[t].started
                 /\ Named(entry[t].registry, entry[t].count, Str_main)
                 /\ frame[t].ret # 0
                 => frame[t].ret = -ENOMEM

\* a load refused at mrbc_create_task after hako_run had loaded "main"
C18_Witness ==
    \E t \in Callers :
        /\ Returning(t, "hako_load_bytecode")
        /\ frame[t].ret = -ENOMEM
        /\ loads_succeeded = 1
        /\ TasksBy("hako_run") # {}

\* C19: when hako_run returns 0 at the end of the documented sequence
\* (hako_init, hako_load_registry of a batch with "main", hako_find_bytecode
\* of "main", hako_load_bytecode of "main" with the bytecode found, hako_run),
\* exactly one task named "main" exists.
C19_DocumentedSequenceOneTask ==
    \A t \in Callers :
        /\ Returning(t, "hako_run")
        /\ frame[t].ret = 0
        /\ entry[t].initialized
        /\ ~entry[t].started
        /\ entry[t].tasks = 1
        /\ tasks[1] = [name |-> Str_main,
                       bytecode |-> FindIn(entry[t].registry, entry[t].count,
                                           Str_main),
                       by |-> "hako_load_bytecode"]
        => Cardinality({k \in 1..Len(tasks) : tasks[k].name = Str_main}) = 1

\* C20: g_vm is NULL while no task was created and is the handle of the first
\* task from then on, whatever loads succeed or fail later; hako_get_vm
\* returns it.
C20_VmHandleFixedAtFirstTask ==
    /\ g_vm = IF tasks = <<>> THEN 0 ELSE 1
    /\ \A t \in Callers :
          Returning(t, "hako_get_vm") =>
              frame[t].ret = IF tasks = <<>> THEN 0 ELSE 1

\* hako_get_vm returns the first task's handle when a second task exists
C20_Witness ==
    \E t \in Callers :
        /\ Returning(t, "hako_get_vm")
        /\ Len(tasks) = 2
        /\ frame[t].ret = 1

\* C21: when hako_run, on the initialized runtime whose supervisor is not
\* started, finds "main" and the load makes no task, it returns the load's
\* error -ENOMEM and has changed nothing: no thread was created, the started
\* flag is still false and the runtime still initialized, so that the next
\* hako_run goes through the start again.
C21_RunLoadFailure ==
    \A t \in Callers :
        /\ Returning(t, "hako_run")
        /\ entry[t].initialized
        /\ ~entry[t].started
        /\ Named(entry[t].registry, entry[t].count, Str_main)
        /\ Len(tasks) = entry[t].tasks
        => /\ frame[t].ret = -ENOMEM
           /\ NoEffect(t)
           /\ g_vm_initialized
           /\ ~g_vm_thread_started
           /\ k_thread_create_calls = 0

\* hako_run returns the error of the load of "main"
C21_Witness ==
    \E t \in Callers :
        /\ Returning(t, "hako_run")
        /\ frame[t].main_bytecode # 0
        /\ frame[t].ret = -ENOMEM
        /\ vm_thread = "unstarted"

C23_RunBlocksUntilDone ==
    \A t \in Callers :
        Returning(t, "hako_run") /\ frame[t].ret = 0 /\ tasks # <<>> =>
            vm_thread \notin {"unstarted", "hako_vm_thread"}

\* C24: a created supervisor is always at a statement of hako_vm_thread, never
\* returned, and comes again and again to the point after mrbc_run, the point
\* after mrbc_tick and the point after k_msleep.
C24_SupervisorNeverExits ==
    /\ [](k_thread_create_calls > 0 =>
            vm_thread \in {"hako_vm_thread", "mrbc_run", "mrbc_tick",
                           "k_msleep"})
    /\ [](k_thread_create_calls > 0 => <>(vm_thread = "mrbc_tick"))
    /\ [](k_thread_create_calls > 0 => <>(vm_thread = "k_msleep"))
    /\ [](k_thread_create_calls > 0 => <>(vm_thread = "mrbc_run"))

\* the supervisor has gone through mrbc_run and mrbc_tick
C24_Witness == k_thread_create_calls = 1 /\ vm_thread = "k_msleep"

\* C25: a caller about to read or write one of the runtime-state fields or
\* the registry holds g_vm_mutex.
C25_AccessUnderMutex ==
    \A t \in Callers : AccessesState(t) => g_vm_mutex = t

\* C26: g_vm_thread_started implies g_vm_initialized in every state, and
\* neither flag goes from true to false in any step.
C26_LifecycleMonotone ==
    /\ [](g_vm_thread_started => g_vm_initialized)
    /\ [][/\ g_vm_initialized => g_vm_initialized'
          /\ g_vm_thread_started => g_vm_thread_started']_vars

\* hako_init is called again on the running system and leaves it running
C26_Witness ==
    \E t \in Callers :
        /\ Returning(t, "hako_init")
        /\ g_vm_thread_started
        /\ g_vm_initialized
        /\ vm_thread # "unstarted"

\* C27: a hako_init call whose construction of the interpreter failed
\* returns -ENOMEM (OutOfMemory) and leaves g_vm_initialized false.
C27_InitFailureLeavesUninitialized ==
    \A t \in Callers :
        Returning(t, "hako_init") /\ ~frame[t].mrbc_init_ok =>
            frame[t].ret = -ENOMEM /\ ~g_vm_initialized

\* C28: over any number of hako_init_extensions calls every extension's init
\* is invoked at most once.
C28_SecondWalkIsNoOp == \A x \in 1..Len(catalog) : ext_calls[x] <= 1

\* C29: in no step does g_bytecode_count decrease or a live slot of the
\* registry change.
C29_RegistryAppendOnly ==
    [][/\ g_bytecode_count' >= g_bytecode_count
       /\ \A s \in 0..(g_bytecode_count - 1) :
             g_bytecode_registry'[s] = g_bytecode_registry[s]]_vars

\* a second batch was appended behind the first
C29_Witness ==
    \E t \in Callers :
        /\ Returning(t, "hako_load_registry")
        /\ frame[t].ret = 0
        /\ entry[t].count > 0
        /\ g_bytecode_count > entry[t].count

\* C30: however hako_init calls of several threads interleave, mrbc_init is
\* executed once, at the one step that sets g_vm_initialized, and every
\* hako_init call returns 0 with the runtime initialized.
C30_ConcurrentInitOnce ==
    /\ mrbc_init_calls = IF g_vm_initialized THEN 1 ELSE 0
    /\ \A t \in Callers :
          Returning(t, "hako_init") =>
              /\ frame[t].ret = 0
              /\ g_vm_initialized
              /\ mrbc_init_calls = 1

\* a hako_init that found the runtime just initialized by another call
C30_Witness ==
    \E t \in Callers :
        /\ Returning(t, "hako_init")
        /\ entry[t].initialized
        /\ ~entry[t].started
        /\ entry[t].count = 0
        /\ entry[t].tasks = 0
        /\ mrbc_init_calls = 1


\* C31: once the supervisor is running, no caller's task creation
\* (mrbc_create_task, under g_vm_mutex) overlaps a scheduler step of the
\* supervisor (mrbc_run, mrbc_tick).
C31_TaskCreationExcludesSchedulerStep ==
    \A t \in Callers : CreatesTask(t) => ~InSchedulerStep

\* C32: the supervisor's loop makes one scheduler step, then one clock tick,
\* then sleeps: at every moment the mrbc_run calls made exceed the mrbc_tick
\* calls made by 0 or 1 (so no tick comes before the first step), the lead
\* being 1 exactly between a step and its tick; and the statements follow
\* each other in that order.
C32_StepTickSleepOrder ==
    /\ steps_ahead \in {0, 1}
    /\ steps_ahead = 1 <=> vm_thread = "mrbc_tick"

\* a step and its tick are both made and the thread sleeps
C32_Witness == vm_thread = "k_msleep" /\ steps_ahead = 0

\* C33: every operation releases g_vm_mutex on every return path, success or
\* error: a caller that has returned (or is past the unlock, writing its log
\* line) does not hold the mutex, and the caller at a k_mutex_unlock is the
\* one that holds it.
C33_MutexReleasedOnReturn ==
    \A t \in Callers :
        /\ pc[t] \in {"idle", "lr_log"} => g_vm_mutex # t
        /\ pc[t] = "unlock" => g_vm_mutex = t

\* one caller has returned from a successful hako_load_registry, the other
\* is at the unlock of an error path of hako_load_bytecode
C33_Witness ==
    \E t, u \in Callers :
        /\ pc[t] = "lr_log"
        /\ Returning(u, "hako_load_bytecode")
        /\ frame[u].ret = -EINVAL
        /\ g_vm_mutex = u

\* C34: with the callers and the supervisor all running, every call that
\* waits for g_vm_mutex gets it, and every call that has it returns; the
\* mutex is only ever owned by a caller, never by the supervisor.
C34_DeadlockFreedom ==
    /\ \A t \in Callers : (pc[t] = "k_mutex_lock") ~> (g_vm_mutex = t)
    /\ \A t \in Callers : (g_vm_mutex = t) ~> (pc[t] \in {"idle", "lr_log"})
    /\ [](g_vm_mutex \in Callers \cup {0})

\* a caller waits for the mutex another caller holds, the supervisor running
C34_Witness ==
    \E t, u \in Callers :
        /\ pc[t] = "k_mutex_lock"
        /\ g_vm_mutex = u
        /\ vm_thread = "mrbc_run"

\* C35: a hako_find_bytecode call sees the registry between two batches: from
\* the moment it has the mutex to its return no other caller is inside
\* hako_load_registry, the registry stays as the call found it, every entry
\* below g_bytecode_count has both its name and its bytecode, and the result
\* is the one the registry it found gives.
C35_BatchIsolation ==
    \A t \in Callers :
        (frame[t].op = "hako_find_bytecode" /\ pc[t] \in {"find_scan", "unlock"}) =>
            /\ \A u \in Callers \ {t} : pc[u] \in {"idle", "lr_log"}
            /\ g_bytecode_registry = entry[t].registry
            /\ g_bytecode_count = entry[t].count
            /\ \A s \in 0..(g_bytecode_count - 1) :
                   /\ g_bytecode_registry[s].name # NULL
                   /\ g_bytecode_registry[s].bytecode # 0
            /\ pc[t] = "unlock" =>
                   frame[t].ret = FindIn(entry[t].registry, entry[t].count,
                                         frame[t].name)

\* a find returns a module while the other caller, past the unlock of its
\* batch, has not yet returned
C35_Witness ==
    \E t, u \in Callers :
        /\ Returning(t, "hako_find_bytecode")
        /\ frame[t].ret # 0
        /\ pc[u] = "lr_log"

\* The number of entries of a batch ahead of its end: `count`, or the index
\* (from 0) of the first entry whose name is NULL, whichever is less.
BatchLimit(f) ==
    LET nulls == {k \in 1..f.count : f.registry.entries[k].name = NULL}
    IN  IF nulls = {} THEN f.count ELSE Lowest(nulls) - 1

\* C36: hako_load_registry takes the entries in index order and stops at the
\* first entry whose name is NULL or after `count` entries: the entries it
\* stored are, in order, those with bytecode among the first n of the batch
\* for an n that is not beyond that point, there are at most that many, and
\* a call that did not run out of room returns 0 with its index at that
\* point.
C36_StopsAtTerminator ==
    \A t \in Callers :
        /\ Returning(t, "hako_load_registry")
        /\ entry[t].initialized
        /\ ~frame[t].registry.null
        => LET es == frame[t].registry.entries
               limit == BatchLimit(frame[t])
               grown == g_bytecode_count - entry[t].count
           IN  /\ grown <= limit
               /\ \E n \in 0..limit :
                      Stored(t) = SelectSeq(SubSeq(es, 1, n), HasBytecode)
               /\ g_bytecode_count < MAX_BYTECODE_MODULES => frame[t].ret = 0
               /\ frame[t].ret = 0 => frame[t].i = limit

\* a batch whose fifth entry has a NULL name and whose sixth entry is valid,
\* loaded with count 6
C36_Witness ==
    \E t \in Callers :
        /\ Returning(t, "hako_load_registry")
        /\ entry[t].initialized
        /\ frame[t].registry = RegMixed
        /\ frame[t].count = 6
        /\ frame[t].ret = 0
        /\ frame[t].i = 4
        /\ g_bytecode_count = entry[t].count + 3

\* C37: hako_load_registry changes the registry only: it creates no task and
\* leaves g_vm, g_vm_initialized and g_vm_thread_started as they were;
\* hako_load_bytecode leaves the registry and the two flags as they were;
\* hako_find_bytecode and hako_get_vm change nothing, and hako_find_bytecode
\* on the uninitialized runtime returns NULL (not found) like any other
\* unsuccessful search.
C37_FrameConditions ==
    \A t \in Callers :
        /\ Returning(t, "hako_load_registry") =>
              /\ Len(tasks) = entry[t].tasks
              /\ g_vm = entry[t].vm
              /\ g_vm_initialized = entry[t].initialized
              /\ g_vm_thread_started = entry[t].started
              /\ k_thread_create_calls = entry[t].spawns
              /\ mrbc_init_calls = entry[t].inits
        /\ Returning(t, "hako_load_bytecode") =>
              /\ g_bytecode_registry = entry[t].registry
              /\ g_bytecode_count = entry[t].count
              /\ g_vm_initialized = entry[t].initialized
              /\ g_vm_thread_started = entry[t].started
        /\ Returning(t, "hako_find_bytecode") \/ Returning(t, "hako_get_vm") =>
              NoEffect(t)
        /\ Returning(t, "hako_find_bytecode") /\ ~entry[t].initialized =>
              frame[t].ret = 0

\* a hako_find_bytecode for "main" returns on the uninitialized runtime
C37_Witness ==
    \E t \in Callers :
        /\ Returning(t, "hako_find_bytecode")
        /\ ~entry[t].initialized
        /\ frame[t].name = Str_main
        /\ frame[t].ret = 0
        /\ NoEffect(t)

\* C38: a caller can tell the failures apart by the result: an operation
\* refused for a NULL argument on the initialized runtime does not return the
\* NotInitialized result, and a hako_load_registry that ran out of room does
\* not return the OutOfMemory result of a failed task creation.
C38_ErrorsDistinguishable ==
    \A t \in Callers :
        /\ ( /\ Returning(t, "hako_load_registry")
             /\ entry[t].initialized
             /\ frame[t].registry.null ) => frame[t].ret # NotInitialized
        /\ ( /\ Returning(t, "hako_load_registry")
             /\ entry[t].initialized
             /\ ~frame[t].registry.null
             /\ frame[t].ret < 0 ) => frame[t].ret # OutOfMemory

\* C39: the hako_init_extensions that walks the section once for each
\* priority 0 .. 255 returns, whatever the (non-empty) section holds, and by
\* then has invoked each extension's init once: a call that has begun comes
\* to its return, and no init is invoked a second time.
C39_PriorityWalkTerminates ==
    /\ \A t \in Callers :
          (frame[t].op = "hako_init_extensions") ~> (frame[t].op = "none")
    /\ [](\A t \in Callers : frame[t].repeated = {})

=============================================================================
